---- MODULE Spec2Model ----
(***************************************************************************)
(* A model of the agent decision layer: the mode classifier                *)
(* (app/router.py), the dispatcher (app/api.py), the four strategy         *)
(* handlers (app/pipelines) and the restricted execution engine            *)
(* (app/pipelines/act.py).                                                 *)
(*                                                                         *)
(* Texts (oracle replies, scripts, identifiers) are sequences of           *)
(* one-character strings, so that trimming, case folding, substring search *)
(* and the gate's patterns are computed character by character.            *)
(***************************************************************************)
EXTENDS Integers, Sequences, FiniteSets, TLC

\* ------------------------------------------------------------------------
\* Bounds of the model
\* ------------------------------------------------------------------------

\* Oracle replies to the classifier are concatenations of at most MaxParts fragments.
MaxParts == 3

\* The scripts of the one-request-at-a-time specification have at most MaxStmts lines.
MaxStmts == 2

\* The scripts of the requests that run side by side have at most MaxSharedStmts lines.
MaxSharedStmts == 2

\* ------------------------------------------------------------------------
\* Text primitives (Python str methods used by the code)
\* ------------------------------------------------------------------------

Whitespace == {" ", "\n", "\t"}

LowerLetters == <<"a","b","c","d","e","f","g","h","i","j","k","l","m",
                  "n","o","p","q","r","s","t","u","v","w","x","y","z">>

UpperLetters == <<"A","B","C","D","E","F","G","H","I","J","K","L","M",
                  "N","O","P","Q","R","S","T","U","V","W","X","Y","Z">>

\* The upper-case letter of each lower-case letter, and the other way round
ToUpper ==
    [c \in {LowerLetters[k] : k \in 1..26} |->
        UpperLetters[CHOOSE k \in 1..26 : LowerLetters[k] = c]]

ToLower ==
    [c \in {UpperLetters[k] : k \in 1..26} |->
        LowerLetters[CHOOSE k \in 1..26 : UpperLetters[k] = c]]

UpperChar(c) == IF c \in DOMAIN ToUpper THEN ToUpper[c] ELSE c

LowerChar(c) == IF c \in DOMAIN ToLower THEN ToLower[c] ELSE c

\* str.upper()
upper(s) == [k \in 1..Len(s) |-> UpperChar(s[k])]

\* str.lower(), the folding re.IGNORECASE applies to both sides of a comparison
lower(s) == [k \in 1..Len(s) |-> LowerChar(s[k])]

RECURSIVE lstrip(_)
lstrip(s) == IF s # <<>> /\ Head(s) \in Whitespace THEN lstrip(Tail(s)) ELSE s

RECURSIVE rstrip(_)
rstrip(s) ==
    IF s # <<>> /\ s[Len(s)] \in Whitespace THEN rstrip(SubSeq(s, 1, Len(s) - 1)) ELSE s

\* str.strip()
strip(s) == rstrip(lstrip(s))

\* s[k:].startswith(p), k a 1-based position
StartsAt(s, k, p) == k + Len(p) - 1 <= Len(s) /\ SubSeq(s, k, k + Len(p) - 1) = p

\* str.startswith
startswith(s, p) == StartsAt(s, 1, p)

\* Python's "p in s" for strings
Contains(s, p) == \E k \in 1..(Len(s) + 1) : StartsAt(s, k, p)

\* The first position of p in s at or after position from, 0 when there is none (str.find).
Find(s, p, from) ==
    LET hits == {k \in from..(Len(s) - Len(p) + 1) : StartsAt(s, k, p)}
    IN  IF hits = {} THEN 0 ELSE CHOOSE k \in hits : \A j \in hits : k <= j

RECURSIVE Concat(_)
Concat(parts) == IF parts = <<>> THEN <<>> ELSE Head(parts) \o Concat(Tail(parts))

\* All sequences over S of length at most n
SeqUpTo(S, n) == UNION {[1..m -> S] : m \in 0..n}

\* ------------------------------------------------------------------------
\* The mode classifier (app/router.py)
\* ------------------------------------------------------------------------

RESPOND == <<"R","E","S","P","O","N","D">>
PLAN == <<"P","L","A","N">>
SEARCH == <<"S","E","A","R","C","H">>
ACT == <<"A","C","T">>

valid_modes == <<RESPOND, PLAN, SEARCH, ACT>>

AgentMode == {valid_modes[k] : k \in 1..Len(valid_modes)}

\* the "for valid_mode in valid_modes" loop with its fall-through default
RECURSIVE ScanModes(_, _)
ScanModes(mode, modes) ==
    IF modes = <<>> THEN RESPOND
    ELSE IF Contains(mode, Head(modes)) THEN Head(modes)
    ELSE ScanModes(mode, Tail(modes))

\* A variant that takes the label standing earliest in the reply.
ParseModeByPosition(response) ==
    LET mode == upper(strip(response))
        hits == {m \in AgentMode : Contains(mode, m)}
    IN  IF mode \in AgentMode THEN mode
        ELSE IF hits = {} THEN RESPOND
        ELSE CHOOSE m \in hits : \A o \in hits : Find(mode, m, 1) <= Find(mode, o, 1)

\* A variant that returns the normalized reply when no label is found in it.
ParseModeNoDefault(response) ==
    LET mode == upper(strip(response))
    IN  IF mode \in AgentMode \/ \A m \in AgentMode : ~Contains(mode, m)
        THEN mode
        ELSE ScanModes(mode, valid_modes)

\* route_query, from the oracle's reply on: lines 42-57
ParseMode(response) ==
    LET mode == upper(strip(response))
    IN  IF mode \notin AgentMode THEN ScanModes(mode, valid_modes) ELSE mode

\* ------------------------------------------------------------------------
\* Python dicts: insertion-ordered sequences of <<key, value>> pairs
\* ------------------------------------------------------------------------

DictKeys(d) == {d[k][1] : k \in 1..Len(d)}

DictHas(d, key) == \E k \in 1..Len(d) : d[k][1] = key

DictGet(d, key) == d[CHOOSE k \in 1..Len(d) : d[k][1] = key][2]

\* d[key] = value: an existing key keeps its place, a new key goes last
DictSet(d, key, value) ==
    IF DictHas(d, key)
    THEN [k \in 1..Len(d) |-> IF d[k][1] = key THEN <<key, value>> ELSE d[k]]
    ELSE Append(d, <<key, value>>)

\* del d[key]
DictDel(d, key) == SelectSeq(d, LAMBDA kv : kv[1] # key)

\* list(d.values())
DictValues(d) == [k \in 1..Len(d) |-> d[k][2]]

\* ------------------------------------------------------------------------
\* The capability catalog (app/pipelines/act.py, lines 12-53)
\* ------------------------------------------------------------------------

CoreCatalog ==
    <<<<<<"a","b","s">>, "<built-in function abs>">>,
      <<<<"r","o","u","n","d">>, "<built-in function round>">>,
      <<<<"m","i","n">>, "<built-in function min>">>,
      <<<<"m","a","x">>, "<built-in function max>">>,
      <<<<"s","u","m">>, "<built-in function sum>">>,
      <<<<"l","e","n">>, "<built-in function len>">>,
      <<<<"r","a","n","g","e">>, "<class 'range'>">>,
      <<<<"e","n","u","m","e","r","a","t","e">>, "<class 'enumerate'>">>,
      <<<<"z","i","p">>, "<class 'zip'>">>,
      <<<<"s","o","r","t","e","d">>, "<built-in function sorted>">>,
      <<<<"l","i","s","t">>, "<class 'list'>">>,
      <<<<"d","i","c","t">>, "<class 'dict'>">>,
      <<<<"s","e","t">>, "<class 'set'>">>,
      <<<<"t","u","p","l","e">>, "<class 'tuple'>">>,
      <<<<"s","t","r">>, "<class 'str'>">>,
      <<<<"i","n","t">>, "<class 'int'>">>,
      <<<<"f","l","o","a","t">>, "<class 'float'>">>,
      <<<<"b","o","o","l">>, "<class 'bool'>">>,
      <<<<"p","r","i","n","t">>, "<built-in function print>">>,
      <<<<"T","r","u","e">>, "True">>,
      <<<<"F","a","l","s","e">>, "False">>,
      <<<<"N","o","n","e">>, "None">>>>

MathCatalog ==
    <<<<<<"s","q","r","t">>, "<built-in function math.sqrt>">>,
      <<<<"p","o","w">>, "<built-in function math.pow>">>,
      <<<<"l","o","g">>, "<built-in function math.log>">>,
      <<<<"l","o","g","1","0">>, "<built-in function math.log10>">>,
      <<<<"e","x","p">>, "<built-in function math.exp>">>,
      <<<<"s","i","n">>, "<built-in function math.sin>">>,
      <<<<"c","o","s">>, "<built-in function math.cos>">>,
      <<<<"t","a","n">>, "<built-in function math.tan>">>,
      <<<<"p","i">>, "3.141592653589793">>,
      <<<<"e">>, "2.718281828459045">>,
      <<<<"c","e","i","l">>, "<built-in function math.ceil>">>,
      <<<<"f","l","o","o","r">>, "<built-in function math.floor>">>,
      <<<<"f","a","c","t","o","r","i","a","l">>, "<built-in function math.factorial>">>>>

\* ------------------------------------------------------------------------
\* The static gate (app/pipelines/act.py, lines 61-79)
\* ------------------------------------------------------------------------

kw_import == <<"i","m","p","o","r","t">>
kw_math == <<"m","a","t","h">>

\* The literal patterns 2..9 of dangerous_patterns, as the text each matches.
LiteralPatterns ==
    <<<<"_","_","i","m","p","o","r","t","_","_">>,
      <<"e","x","e","c","(">>,
      <<"e","v","a","l","(">>,
      <<"c","o","m","p","i","l","e","(">>,
      <<"o","p","e","n","(">>,
      <<"f","i","l","e","(">>,
      <<"i","n","p","u","t","(">>,
      <<"r","a","w","_","i","n","p","u","t","(">>>>

\* The source text of each pattern, as it is quoted in the rejection reason.
PatternSource ==
    <<"import\\s+(?!math)", "__import__", "exec\\(", "eval\\(", "compile\\(",
      "open\\(", "file\\(", "input\\(", "raw_input\\(">>

\* import\s+(?!math) at position k of the folded text: the keyword, then a run of
\* one or more whitespace characters (any length the run allows, as backtracking
\* tries them) after which the text does not go on with "math".
\* An import pattern without the exception for math.
ImportMatchesAtAnyModule(low, k) ==
    /\ StartsAt(low, k, kw_import)
    /\ k + 6 <= Len(low)
    /\ low[k + 6] \in Whitespace

ImportMatchesAt(low, k) ==
    /\ StartsAt(low, k, kw_import)
    /\ \E m \in 1..Len(low) :
        /\ k + 5 + m <= Len(low)
        /\ \A j \in (k + 6)..(k + 5 + m) : low[j] \in Whitespace
        /\ ~StartsAt(low, k + 6 + m, kw_math)

\* re.search(dangerous_patterns[p], code, re.IGNORECASE)
PatternMatches(p, code) ==
    LET low == lower(code)
    IN  IF p = 1
        THEN \E k \in 1..Len(low) : ImportMatchesAt(low, k)
        ELSE Contains(low, LiteralPatterns[p - 1])

\* A gate whose search is case-sensitive.
PatternMatchesCaseSensitive(p, code) ==
    IF p = 1
    THEN \E k \in 1..Len(code) : ImportMatchesAt(code, k)
    ELSE Contains(code, LiteralPatterns[p - 1])

\* A pattern loop whose searches are case-sensitive.
RECURSIVE FirstMatchCaseSensitive(_, _)
FirstMatchCaseSensitive(code, p) ==
    IF p > Len(PatternSource) THEN 0
    ELSE IF PatternMatchesCaseSensitive(p, code) THEN p
    ELSE FirstMatchCaseSensitive(code, p + 1)

\* The "for pattern in dangerous_patterns" loop: the first pattern, in list order,
\* that the code matches; 0 when none does.
RECURSIVE FirstMatch(_, _)
FirstMatch(code, p) ==
    IF p > Len(PatternSource) THEN 0
    ELSE IF PatternMatches(p, code) THEN p
    ELSE FirstMatch(code, p + 1)

\* f"Blocked: unsafe operation detected ({pattern})"
BlockedError(p) == <<"Blocked: unsafe operation detected (", PatternSource[p], ")">>

\* ------------------------------------------------------------------------
\* Scripts: the lines the oracle may write, each with the text the gate and the
\* extraction see and the effect the interpreter gives it under exec
\* ------------------------------------------------------------------------

\* op: what executing the line does
\*   assign_const  target = value             assign_name  target = name
\*   del_name      del target                 div_zero     target = 1/0
\*   import        import name                comment      nothing
\*   call          target = name(value)       call_attr    target = math.name(value)
\*   setitem_name  __builtins__[target] = name
\*   raise_base    raises an instance of BaseException, reached by reflection
\*   syntax_error  the line does not compile
Statements ==
    <<
      [text |-> <<"x"," ","="," ","1">>,
       op |-> "assign_const", target |-> <<"x">>, name |-> <<>>, value |-> "1"],
      [text |-> <<"y"," ","="," ","2">>,
       op |-> "assign_const", target |-> <<"y">>, name |-> <<>>, value |-> "2"],
      [text |-> <<"x"," ","="," ","3">>,
       op |-> "assign_const", target |-> <<"x">>, name |-> <<>>, value |-> "3"],
      [text |-> <<"r","e","s","u","l","t"," ","="," ","4","2">>,
       op |-> "assign_const", target |-> <<"r","e","s","u","l","t">>, name |-> <<>>, value |-> "42"],
      [text |-> <<"a","n","s","w","e","r"," ","="," ","7">>,
       op |-> "assign_const", target |-> <<"a","n","s","w","e","r">>, name |-> <<>>, value |-> "7"],
      [text |-> <<"_","t"," ","="," ","5">>,
       op |-> "assign_const", target |-> <<"_","t">>, name |-> <<>>, value |-> "5"],
      [text |-> <<"s"," ","="," ","'","e","v","a","l","(","x",")","'">>,
       op |-> "assign_const", target |-> <<"s">>, name |-> <<>>, value |-> "'eval(x)'"],
      [text |-> <<"y"," ","="," ","x">>,
       op |-> "assign_name", target |-> <<"y">>, name |-> <<"x">>, value |-> ""],
      [text |-> <<"f"," ","="," ","o","p","e","n">>,
       op |-> "assign_name", target |-> <<"f">>, name |-> <<"o","p","e","n">>, value |-> ""],
      [text |-> <<"d","e","l"," ","x">>,
       op |-> "del_name", target |-> <<"x">>, name |-> <<>>, value |-> ""],
      [text |-> <<"z"," ","="," ","1","/","0">>,
       op |-> "div_zero", target |-> <<"z">>, name |-> <<>>, value |-> ""],
      [text |-> <<"i","m","p","o","r","t"," ","m","a","t","h">>,
       op |-> "import", target |-> <<>>, name |-> <<"m","a","t","h">>, value |-> ""],
      [text |-> <<"i","m","p","o","r","t"," "," ","m","a","t","h">>,
       op |-> "import", target |-> <<>>, name |-> <<"m","a","t","h">>, value |-> ""],
      [text |-> <<"i","m","p","o","r","t"," ","o","s">>,
       op |-> "import", target |-> <<>>, name |-> <<"o","s">>, value |-> ""],
      [text |-> <<"i","m","p","o","r","t"," ","m","a","t","h","u","t","i","l","s">>,
       op |-> "import", target |-> <<>>, name |-> <<"m","a","t","h","u","t","i","l","s">>, value |-> ""],
      [text |-> <<"f","r","o","m"," ","m","a","t","h"," ","i","m","p","o","r","t"," ","s","q","r","t">>,
       op |-> "import", target |-> <<>>, name |-> <<"m","a","t","h">>, value |-> ""],
      [text |-> <<"I","M","P","O","R","T"," ","o","s">>,
       op |-> "syntax_error", target |-> <<>>, name |-> <<>>, value |-> ""],
      [text |-> <<"x"," ","="," ",")">>,
       op |-> "syntax_error", target |-> <<>>, name |-> <<>>, value |-> ""],
      [text |-> <<"#"," ","o","p","e","n","(">>,
       op |-> "comment", target |-> <<>>, name |-> <<>>, value |-> ""],
      [text |-> <<"z"," ","="," ","m","a","t","h",".","s","q","r","t","(","4",")">>,
       op |-> "call_attr", target |-> <<"z">>, name |-> <<"s","q","r","t">>, value |-> "4"],
      [text |-> <<"n"," ","="," ","l","e","n","(","'","a","b","'",")">>,
       op |-> "call", target |-> <<"n">>, name |-> <<"l","e","n">>, value |-> "'ab'"],
      [text |-> <<"_","_","b","u","i","l","t","i","n","s","_","_","[","'","l","e","n","'","]"," ","="," ","a","b","s">>,
       op |-> "setitem_name", target |-> <<"l","e","n">>, name |-> <<"a","b","s">>, value |-> ""],
      [text |-> <<"r","a","i","s","e"," ","[","c"," ","f","o","r"," ","c"," ","i","n"," ","(",")",".","_","_","c","l","a","s","s","_","_",".","_","_","b","a","s","e","_","_",".","_","_","s","u","b","c","l","a","s","s","e","s","_","_","(",")"," ","i","f"," ","c",".","_","_","n","a","m","e","_","_"," ","=","="," ","'","B","a","s","e","E","x","c","e","p","t","i","o","n","'","]","[","0","]","(",")">>,
       op |-> "raise_base", target |-> <<>>, name |-> <<>>, value |-> ""]
    >>

StatementSet == {Statements[k] : k \in 1..Len(Statements)}

\* The lines of the requests that run side by side.
SharedStatements ==
    {st \in StatementSet :
        st.text \in {<<"x"," ","="," ","1">>,
                     <<"y"," ","="," ","x">>,
                     <<"n"," ","="," ","l","e","n","(","'","a","b","'",")">>,
                     <<"_","_","b","u","i","l","t","i","n","s","_","_","[","'","l","e","n","'","]"," ","="," ","a","b","s">>}}

LF == <<"\n">>

\* "\n".join(lines)
RECURSIVE JoinLines(_)
JoinLines(lines) ==
    IF lines = <<>> THEN <<>>
    ELSE IF Len(lines) = 1 THEN Head(lines)
    ELSE Head(lines) \o LF \o JoinLines(Tail(lines))

\* text.split("\n")
RECURSIVE SplitLines(_)
SplitLines(text) ==
    LET nl == Find(text, LF, 1)
    IN  IF nl = 0 \/ nl > Len(text) THEN <<text>>
        ELSE <<SubSeq(text, 1, nl - 1)>> \o SplitLines(SubSeq(text, nl + 1, Len(text)))

\* The text of a script made of the given lines.
ScriptText(stmts) == JoinLines([k \in 1..Len(stmts) |-> stmts[k].text])

\* All script texts of at most n lines over a set of lines
ScriptTexts(lines, n) == {ScriptText(ss) : ss \in SeqUpTo(lines, n)}

IsStatement(line) == \E st \in StatementSet : st.text = line

StatementOf(line) == CHOOSE st \in StatementSet : st.text = line

\* The lines of a text that are not blank
CodeLines(code) == SelectSeq(SplitLines(code), LAMBDA line : strip(line) # <<>>)

\* Compilation, the first thing exec does: every line has to be a statement of the
\* language; a line of prose or a stray fence is a syntax error.
Compiles(code) ==
    \A k \in 1..Len(CodeLines(code)) :
        /\ IsStatement(CodeLines(code)[k])
        /\ StatementOf(CodeLines(code)[k]).op # "syntax_error"

\* The statements of a text that compiles
Program(code) == [k \in 1..Len(CodeLines(code)) |-> StatementOf(CodeLines(code)[k])]

\* ------------------------------------------------------------------------
\* What exec does with one statement (the interpreter under
\* exec(code, safe_globals, safe_locals), app/pipelines/act.py line 91)
\* ------------------------------------------------------------------------

n_result == <<"r","e","s","u","l","t">>
n_answer == <<"a","n","s","w","e","r">>
n_math == <<"m","a","t","h">>
n_builtins == <<"_","_","b","u","i","l","t","i","n","s","_","_">>
n_import == <<"_","_","i","m","p","o","r","t","_","_">>
underscore == <<"_">>

\* safe_globals, lines 82-85: '__builtins__' is bound to the SAFE_BUILTINS dict
\* itself (no copy is made), 'math' to a fresh object built from SAFE_MATH.
safe_globals == <<<<n_builtins, "&SAFE_BUILTINS">>, <<n_math, "&math">>>>

\* Where a name that a statement reads is found: the script's own bindings, then
\* the globals, then the dict that globals['__builtins__'] refers to.
Scope(env, name) ==
    IF DictHas(env.locals, name) THEN "local"
    ELSE IF DictHas(safe_globals, name) THEN "global"
    ELSE IF DictHas(env.builtins, name) THEN "builtin"
    ELSE "unbound"

Load(env, name) ==
    CASE Scope(env, name) = "local" -> DictGet(env.locals, name)
      [] Scope(env, name) = "global" -> DictGet(safe_globals, name)
      [] Scope(env, name) = "builtin" -> DictGet(env.builtins, name)

\* The names a statement resolved that the script did not bind itself
Read(env, name) == IF Scope(env, name) = "local" THEN {} ELSE {name}

Continue(env, names) ==
    [status |-> "ok", locals |-> env.locals, builtins |-> env.builtins,
     mathns |-> env.mathns, error |-> <<>>, read |-> names]

\* kind: "Exception" for the errors derived from Exception, "BaseException" for
\* an exception that is not
Raise(kind, error, env, names) ==
    [status |-> kind, locals |-> env.locals, builtins |-> env.builtins,
     mathns |-> env.mathns, error |-> error, read |-> names]

NameError(name) == <<"name '">> \o name \o <<"' is not defined">>

\* Calling a value with one argument
Call(fn, arg) ==
    CASE fn = "<built-in function len>" /\ arg = "'ab'" ->
            [ok |-> TRUE, value |-> "2", error |-> <<>>]
      [] fn = "<built-in function abs>" /\ arg = "'ab'" ->
            [ok |-> FALSE, value |-> "", error |-> <<"bad operand type for abs(): 'str'">>]
      [] fn = "<built-in function math.sqrt>" /\ arg = "4" ->
            [ok |-> TRUE, value |-> "2.0", error |-> <<>>]
      [] OTHER ->
            [ok |-> FALSE, value |-> "", error |-> <<"object is not callable">>]

Bind(env, target, value, names) ==
    Continue([env EXCEPT !.locals = DictSet(env.locals, target, value)], names)

Execute(st, env) ==
    CASE st.op = "assign_const" -> Bind(env, st.target, st.value, {})
      [] st.op = "comment" -> Continue(env, {})
      [] st.op = "assign_name" ->
            IF Scope(env, st.name) = "unbound"
            THEN Raise("Exception", NameError(st.name), env, {})
            ELSE Bind(env, st.target, Load(env, st.name), Read(env, st.name))
      [] st.op = "del_name" ->
            IF DictHas(env.locals, st.target)
            THEN Continue([env EXCEPT !.locals = DictDel(env.locals, st.target)], {})
            ELSE Raise("Exception", NameError(st.target), env, {})
      [] st.op = "div_zero" -> Raise("Exception", <<"division by zero">>, env, {})
      [] st.op = "import" ->
            \* the import statement calls builtins' __import__, which the catalog lacks
            IF DictHas(env.builtins, n_import)
            THEN Raise("Exception", <<"object is not callable">>, env, {n_import})
            ELSE Raise("Exception", <<"__import__ not found">>, env, {})
      [] st.op = "call" ->
            IF Scope(env, st.name) = "unbound"
            THEN Raise("Exception", NameError(st.name), env, {})
            ELSE IF Call(Load(env, st.name), st.value).ok
            THEN Bind(env, st.target, Call(Load(env, st.name), st.value).value,
                      Read(env, st.name))
            ELSE Raise("Exception", Call(Load(env, st.name), st.value).error, env,
                       Read(env, st.name))
      [] st.op = "call_attr" ->
            IF Load(env, n_math) # "&math" \/ ~DictHas(env.mathns, st.name)
            THEN Raise("Exception", <<"object has no attribute">>, env, Read(env, n_math))
            ELSE IF Call(DictGet(env.mathns, st.name), st.value).ok
            THEN Bind(env, st.target, Call(DictGet(env.mathns, st.name), st.value).value,
                      Read(env, n_math))
            ELSE Raise("Exception", Call(DictGet(env.mathns, st.name), st.value).error,
                       env, Read(env, n_math))
      [] st.op = "setitem_name" ->
            \* the right-hand side is evaluated first, then the dict is stored into
            IF Scope(env, st.name) = "unbound"
            THEN Raise("Exception", NameError(st.name), env, {})
            ELSE IF Load(env, n_builtins) # "&SAFE_BUILTINS"
            THEN Raise("Exception", <<"object does not support item assignment">>, env,
                       Read(env, st.name) \cup Read(env, n_builtins))
            ELSE Continue([env EXCEPT !.builtins =
                                DictSet(env.builtins, st.target, Load(env, st.name))],
                          Read(env, st.name) \cup Read(env, n_builtins))
      [] st.op = "raise_base" -> Raise("BaseException", <<>>, env, {})

\* ------------------------------------------------------------------------
\* safe_execute_python after exec: lines 93-116
\* ------------------------------------------------------------------------

\* A selection whose fallback takes the first binding instead of the last.
SelectResultFirstValue(locals) ==
    IF DictHas(locals, n_result) THEN DictGet(locals, n_result)
    ELSE IF DictHas(locals, n_answer) THEN DictGet(locals, n_answer)
    ELSE IF locals # <<>> THEN DictValues(locals)[1]
    ELSE "None"

\* lines 94-104
SelectResult(locals) ==
    IF DictHas(locals, n_result) THEN DictGet(locals, n_result)
    ELSE IF DictHas(locals, n_answer) THEN DictGet(locals, n_answer)
    ELSE IF locals # <<>> THEN DictValues(locals)[Len(locals)]
    ELSE "None"

\* A filter that also leaves out the binding named result.
PublicVariablesNoResult(locals) ==
    SelectSeq(locals, LAMBDA kv : ~startswith(kv[1], underscore) /\ kv[1] # n_result)

\* A filter that lets every binding through.
PublicVariablesAll(locals) == locals

\* {k: v for k, v in safe_locals.items() if not k.startswith('_')}
PublicVariables(locals) == SelectSeq(locals, LAMBDA kv : ~startswith(kv[1], underscore))

\* lines 106-110
Succeeded(locals) ==
    [success |-> TRUE, result |-> SelectResult(locals),
     variables |-> PublicVariables(locals)]

\* lines 76-79 and 113-116
Unsuccessful(error) == [success |-> FALSE, error |-> error]

\* ------------------------------------------------------------------------
\* handle_act's code extraction and envelope (lines 149-187)
\* ------------------------------------------------------------------------

\* The backtick character (a TLA+ string literal cannot hold it)
bq == "BACKTICK"

fence_open == <<bq,bq,bq,"p","y","t","h","o","n","\n">>
fence_close == <<bq,bq,bq>>

\* re.search(r'```python\n(.*?)```', code_response, re.DOTALL): the leftmost opening
\* fence that has a closing fence after it, and the nearest such closing fence
FenceStart(text) == Find(text, fence_open, 1)

FenceEnd(text) ==
    IF FenceStart(text) = 0 THEN 0
    ELSE Find(text, fence_close, FenceStart(text) + Len(fence_open))

\* An extraction that takes the interior of the block as it stands.
ExtractCodeUntrimmed(code_response) ==
    IF FenceEnd(code_response) > 0
    THEN SubSeq(code_response, FenceStart(code_response) + Len(fence_open),
                FenceEnd(code_response) - 1)
    ELSE code_response

\* lines 150-156
ExtractCode(code_response) ==
    IF FenceEnd(code_response) > 0
    THEN strip(SubSeq(code_response, FenceStart(code_response) + Len(fence_open),
                      FenceEnd(code_response) - 1))
    ELSE strip(code_response)

\* An envelope that reports success whatever the outcome.
ActEnvelopeAlwaysSuccess(code, execution_result) ==
    [mode |-> ACT,
     answer |-> <<"Result: ", "None">>,
     result |-> "None",
     code |-> code,
     metadata |-> [tool_used |-> "python_repl", execution_success |-> TRUE,
                   variables |-> <<>>]]

\* lines 161-187
ActEnvelope(code, execution_result) ==
    IF execution_result.success
    THEN [mode |-> ACT,
          answer |-> <<"Result: ", execution_result.result>>,
          result |-> execution_result.result,
          code |-> code,
          metadata |-> [tool_used |-> "python_repl", execution_success |-> TRUE,
                        variables |-> execution_result.variables]]
    ELSE [mode |-> ACT,
          answer |-> <<"Execution failed: ">> \o execution_result.error,
          result |-> "None",
          code |-> code,
          metadata |-> [tool_used |-> "python_repl", execution_success |-> FALSE,
                        error |-> execution_result.error]]

\* ------------------------------------------------------------------------
\* The other handlers (app/pipelines/respond.py, plan.py, search.py)
\* ------------------------------------------------------------------------

\* handle_respond, lines 25-31
RespondEnvelope(answer) ==
    [mode |-> RESPOND, answer |-> answer, metadata |-> [tool_used |-> "None"]]

\* handle_plan, lines 71-82, for an answer without section lines: every list
\* takes its default
PlanEnvelope(answer) ==
    [mode |-> PLAN, answer |-> answer,
     plan |-> [steps |-> <<"See full plan in answer">>,
               missing_information |-> <<"None identified">>,
               next_actions |-> <<"Execute the plan">>],
     metadata |-> [tool_used |-> "planning"]]

Unavailable ==
    <<[title |-> "Search Unavailable",
       snippet |-> "Unable to fetch search results. This may be due to API limits or network issues.",
       url |-> ""]>>

\* What a provider call may end in: a failure, or a list of results (maybe empty).
Hit(n) == [title |-> "title", snippet |-> "snippet", url |-> n]

ProviderOutcomes ==
    {[failed |-> TRUE, results |-> <<>>],
     [failed |-> FALSE, results |-> <<>>],
     [failed |-> FALSE, results |-> <<Hit("u1"), Hit("")>>],
     [failed |-> FALSE, results |-> <<Hit("u1"), Hit("u2"), Hit("u3"), Hit("u4")>>]}

\* Serper may send more organic items than were asked for
SerperOutcomes ==
    ProviderOutcomes \cup
        {[failed |-> FALSE,
          results |-> <<Hit("s1"), Hit("s2"), Hit("s3"), Hit("s4"), Hit("s5"), Hit("s6")>>]}

\* seq[:n]
Take(seq, n) == SubSeq(seq, 1, IF Len(seq) < n THEN Len(seq) ELSE n)

\* handle_search, line 137: web_search(query, max_results=5)
max_results == 5

\* web_search_serper, lines 17-53: no key or any failure gives the empty list
web_search_serper(has_key, outcome) ==
    IF ~has_key \/ outcome.failed THEN <<>> ELSE Take(outcome.results, max_results)

\* web_search_duckduckgo, lines 61-75
web_search_duckduckgo(outcome) == IF outcome.failed THEN <<>> ELSE outcome.results

\* A search that prefers the results of DuckDuckGo.
web_searchSecondaryFirst(has_key, serper, ddg) ==
    IF web_search_duckduckgo(ddg) # <<>> THEN web_search_duckduckgo(ddg)
    ELSE IF web_search_serper(has_key, serper) # <<>> THEN web_search_serper(has_key, serper)
    ELSE Unavailable

\* web_search, lines 92-113
web_search(has_key, serper, ddg) ==
    IF web_search_serper(has_key, serper) # <<>> THEN web_search_serper(has_key, serper)
    ELSE IF web_search_duckduckgo(ddg) # <<>> THEN web_search_duckduckgo(ddg)
    ELSE Unavailable

\* The providers web_search asks over the network, in order, each with what it
\* answered: Serper when its key is set (line 19), DuckDuckGo when line 95 had
\* no results
QueriedProviders(has_key, serper, ddg) ==
    (IF has_key THEN <<[provider |-> "serper", outcome |-> serper]>> ELSE <<>>)
        \o (IF web_search_serper(has_key, serper) = <<>>
            THEN <<[provider |-> "duckduckgo", outcome |-> ddg]>> ELSE <<>>)

\* handle_search, lines 157-175
SearchEnvelope(answer, has_key, search_results) ==
    LET cited == SelectSeq(search_results,
                           LAMBDA r : r.url # "" /\ r.title # "Search Unavailable")
        found == SelectSeq(search_results, LAMBDA r : r.title # "Search Unavailable")
    IN  [mode |-> SEARCH, answer |-> answer,
         sources |-> Take([k \in 1..Len(cited) |->
                              [title |-> cited[k].title, url |-> cited[k].url]], 3),
         metadata |-> [tool_used |-> IF has_key THEN "serper" ELSE "duckduckgo",
                       num_results |-> Len(found)]]

\* ------------------------------------------------------------------------
\* The dispatcher (app/api.py)
\* ------------------------------------------------------------------------

\* An if-chain whose else branch defaults to the RESPOND handler.
HandlerDefaultRespond(mode) ==
    IF mode = PLAN THEN "handle_plan"
    ELSE IF mode = SEARCH THEN "handle_search"
    ELSE IF mode = ACT THEN "handle_act"
    ELSE "handle_respond"

\* An if-chain that sends SEARCH to the RESPOND handler.
HandlerSearchAsRespond(mode) ==
    IF mode = RESPOND \/ mode = SEARCH THEN "handle_respond"
    ELSE IF mode = PLAN THEN "handle_plan"
    ELSE IF mode = ACT THEN "handle_act"
    ELSE "ValueError"

\* The if-chain of infer, lines 76-85
Handler(mode) ==
    IF mode = RESPOND THEN "handle_respond"
    ELSE IF mode = PLAN THEN "handle_plan"
    ELSE IF mode = SEARCH THEN "handle_search"
    ELSE IF mode = ACT THEN "handle_act"
    ELSE "ValueError"

\* InferResponse(mode=..., answer=..., latency_ms=..., metadata=...), lines 91-96
InferResponse(result) ==
    [status |-> "200",
     body |-> [mode |-> result.mode, answer |-> result.answer,
               latency_ms |-> "measured", metadata |-> result.metadata]]

\* raise HTTPException(status_code=500, detail=str(e)), lines 98-100
HTTPException(detail) == [status |-> "500", detail |-> detail]

\* An exception that "except Exception" does not catch leaves infer unhandled.
Unhandled == [status |-> "unhandled"]

\* ------------------------------------------------------------------------
\* The inputs
\* ------------------------------------------------------------------------

\* Fragments the oracle's reply to the classifier is made of
ReplyParts ==
    {<<"r","e","s","p","o","n","d">>, <<"P","L","A","N">>, <<"S","e","a","r","c","h">>,
     <<"a","c","t">>, <<"R","E","S","P">>, <<"O","N","D">>, <<"e","x">>,
     <<"m","a","y","b","e">>, <<" ">>, <<"\n">>, <<".">>}

\* The replies to the classifier: every concatenation of at most MaxParts fragments
RouterReplies == {Concat(parts) : parts \in SeqUpTo(ReplyParts, MaxParts)}

\* The replies to the classifier of the requests that run side by side
SharedRouterReplies ==
    {<<"A","C","T">>, <<"a","c","t",".">>, <<"p","l","a","n">>,
     <<"S","e","a","r","c","h">>, <<"m","a","y","b","e">>}

prose == <<"H","e","r","e"," ","i","s"," ","t","h","e"," ","c","o","d","e",":","\n">>

\* The shapes of a reply that carries a script: fenced as asked, bare, fenced
\* after a line of prose, and with the closing fence missing
Fenced(body) == fence_open \o body \o LF \o fence_close

Wrappings(body) ==
    {Fenced(body), body, prose \o Fenced(body) \o LF, fence_open \o body}

\* Longer scripts: a name rebound after a later one was bound, and a name deleted
\* and bound again
LongScripts ==
    {<<"x"," ","="," ","1","\n","y"," ","="," ","2","\n","x"," ","="," ","3">>,
     <<"x"," ","="," ","1","\n","y"," ","="," ","2","\n","d","e","l"," ","x","\n",
       "x"," ","="," ","3">>}

\* The replies to handle_act: every script of at most MaxStmts lines and the longer
\* scripts, in every shape
CodeReplies ==
    UNION {Wrappings(body) : body \in ScriptTexts(StatementSet, MaxStmts) \cup LongScripts}

\* The replies to handle_act of the requests that run side by side
SharedCodeReplies ==
    {Fenced(body) : body \in ScriptTexts(SharedStatements, MaxSharedStmts)}
        \cup {Fenced(st.text) : st \in {s \in StatementSet : s.op \in {"import", "raise_base"}}}

\* The oracle's answers to the other handlers
Answers == {<<"a","n"," ","a","n","s","w","e","r">>}

\* What a stand-in for route_query may hand to the dispatcher: the four labels
\* and texts that are none of them
StubModes ==
    AgentMode \cup {<<>>, <<"a","c","t">>, <<"C","H","A","T">>, <<"A","C","T"," ">>,
                      <<"R","E","S","P","O","N","D",".">>}

\* ------------------------------------------------------------------------
\* The state
\* ------------------------------------------------------------------------

VARIABLES
    SAFE_BUILTINS,     \* the module-level dict of act.py, one per process
    SAFE_MATH,         \* the module-level dict of act.py, one per process
    pc,                \* where each request is
    response_text,     \* route_query's local "response"
    mode,              \* infer's local "mode"
    code,              \* handle_act's local "code"
    program,           \* the compiled statements exec runs
    ip,                \* the statement exec runs next
    safe_locals,       \* safe_execute_python's local dict
    math_object,       \* the attributes of safe_globals['math']
    execution_result,  \* handle_act's local "execution_result"
    result,            \* infer's local "result", the handler's envelope
    reply,             \* what the caller of /infer gets
    names_read,        \* the names exec resolved outside the script's own bindings
    exec_calls,        \* how many times the request reached exec(...)
    oracle_calls,      \* the calls of llm_client.generate the request made, in order
    handlers,          \* the handlers infer invoked for the request, in order
    code_response,     \* handle_act's local "code_response"
    providers,         \* the search providers web_search queried, in order
    search_results     \* handle_search's local "search_results"

shared == <<SAFE_BUILTINS, SAFE_MATH>>
engine == <<program, ip, safe_locals, math_object, names_read, exec_calls>>
called == <<oracle_calls, handlers>>
searching == <<providers, search_results>>
vars == <<SAFE_BUILTINS, SAFE_MATH, pc, response_text, mode, code, program, ip,
          safe_locals, math_object, execution_result, result, reply, names_read,
          exec_calls, oracle_calls, handlers, code_response, providers,
          search_results>>

Requests == DOMAIN pc

\* A local that holds nothing yet
Unset == [unset |-> TRUE]

InitFor(requests) ==
    /\ SAFE_BUILTINS = CoreCatalog
    /\ SAFE_MATH = MathCatalog
    /\ pc = [i \in requests |-> "start"]
    /\ response_text = [i \in requests |-> <<>>]
    /\ mode = [i \in requests |-> <<>>]
    /\ code = [i \in requests |-> <<>>]
    /\ program = [i \in requests |-> <<>>]
    /\ ip = [i \in requests |-> 1]
    /\ safe_locals = [i \in requests |-> <<>>]
    /\ math_object = [i \in requests |-> <<>>]
    /\ execution_result = [i \in requests |-> Unset]
    /\ result = [i \in requests |-> Unset]
    /\ reply = [i \in requests |-> Unset]
    /\ names_read = [i \in requests |-> {}]
    /\ exec_calls = [i \in requests |-> 0]
    /\ oracle_calls = [i \in requests |-> <<>>]
    /\ handlers = [i \in requests |-> <<>>]
    /\ code_response = [i \in requests |-> <<>>]
    /\ providers = [i \in requests |-> <<>>]
    /\ search_results = [i \in requests |-> <<>>]

\* ------------------------------------------------------------------------
\* The steps of a request: infer (app/api.py lines 63-100) and what it calls
\* ------------------------------------------------------------------------

\* One call of llm_client.generate (app/llm.py lines 35-43) and how it ended
OracleCall(caller, failed) == [caller |-> caller, failed |-> failed]

\* route_query, lines 35-57: the oracle replies; llm_client.generate returns the
\* reply stripped (app/llm.py line 43)
RouteQuery(i, contents) ==
    /\ pc[i] = "start"
    /\ \E content \in contents :
        /\ response_text' = [response_text EXCEPT ![i] = strip(content)]
        /\ mode' = [mode EXCEPT ![i] = ParseMode(strip(content))]
    /\ oracle_calls' = [oracle_calls EXCEPT ![i] = Append(@, OracleCall("route_query", FALSE))]
    /\ pc' = [pc EXCEPT ![i] = "routed"]
    /\ UNCHANGED <<shared, engine, code, execution_result, result, reply, handlers,
                   code_response, searching>>

\* route_query returns its label to infer (line 73); its locals are gone
RouteReturn(i) ==
    /\ pc[i] = "routed"
    /\ response_text' = [response_text EXCEPT ![i] = <<>>]
    /\ pc' = [pc EXCEPT ![i] = "dispatch"]
    /\ UNCHANGED <<shared, engine, mode, code, execution_result, result, reply, called,
                   code_response, searching>>

\* A classifier that recovers from a failed oracle call by defaulting to RESPOND.
RouteOracleFailsDefaultsToRespond(i) ==
    /\ pc[i] = "start"
    /\ oracle_calls' = [oracle_calls EXCEPT ![i] = Append(@, OracleCall("route_query", TRUE))]
    /\ mode' = [mode EXCEPT ![i] = RESPOND]
    /\ pc' = [pc EXCEPT ![i] = "routed"]
    /\ UNCHANGED <<shared, engine, response_text, code, execution_result, result, reply,
                   handlers, code_response, searching>>

\* The oracle call of route_query fails: infer's except clause answers 500.
RouteOracleFails(i) ==
    /\ pc[i] = "start"
    /\ oracle_calls' = [oracle_calls EXCEPT ![i] = Append(@, OracleCall("route_query", TRUE))]
    /\ reply' = [reply EXCEPT ![i] = HTTPException("oracle failure")]
    /\ pc' = [pc EXCEPT ![i] = "done"]
    /\ UNCHANGED <<shared, engine, response_text, mode, code, execution_result, result,
                   handlers, code_response, searching>>

\* The oracle call of the chosen handler fails: the handler was entered (and
\* handle_search has searched), nothing catches the failure before infer does.
HandlerOracleFails(i) ==
    /\ \/ pc[i] = "dispatch" /\ Handler(mode[i]) \in {"handle_respond", "handle_plan", "handle_act"}
       \/ pc[i] = "searched"
    /\ handlers' = [handlers EXCEPT ![i] = IF pc[i] = "dispatch"
                                            THEN Append(@, Handler(mode[i])) ELSE @]
    /\ oracle_calls' = [oracle_calls EXCEPT ![i] = Append(@, OracleCall(Handler(mode[i]), TRUE))]
    /\ reply' = [reply EXCEPT ![i] = HTTPException("oracle failure")]
    /\ pc' = [pc EXCEPT ![i] = "done"]
    /\ UNCHANGED <<shared, engine, response_text, mode, code, execution_result, result,
                   code_response, searching>>

\* A handler's oracle call succeeded and the handler returns its envelope to infer
Handled(i, handler, envelope) ==
    /\ oracle_calls' = [oracle_calls EXCEPT ![i] = Append(@, OracleCall(handler, FALSE))]
    /\ result' = [result EXCEPT ![i] = envelope]
    /\ pc' = [pc EXCEPT ![i] = "handled"]
    /\ UNCHANGED <<shared, engine, response_text, mode, code, execution_result, reply,
                   code_response, searching>>

HandleRespond(i) ==
    /\ pc[i] = "dispatch"
    /\ Handler(mode[i]) = "handle_respond"
    /\ handlers' = [handlers EXCEPT ![i] = Append(@, "handle_respond")]
    /\ \E answer \in Answers : Handled(i, "handle_respond", RespondEnvelope(answer))

HandlePlan(i) ==
    /\ pc[i] = "dispatch"
    /\ Handler(mode[i]) = "handle_plan"
    /\ handlers' = [handlers EXCEPT ![i] = Append(@, "handle_plan")]
    /\ \E answer \in Answers : Handled(i, "handle_plan", PlanEnvelope(answer))

\* handle_search, line 137: web_search runs to its end before the oracle is asked
WebSearch(i) ==
    /\ pc[i] = "dispatch"
    /\ Handler(mode[i]) = "handle_search"
    /\ handlers' = [handlers EXCEPT ![i] = Append(@, "handle_search")]
    /\ \E has_key \in BOOLEAN, serper \in SerperOutcomes, ddg \in ProviderOutcomes :
        /\ providers' = [providers EXCEPT ![i] = QueriedProviders(has_key, serper, ddg)]
        /\ search_results' = [search_results EXCEPT ![i] = web_search(has_key, serper, ddg)]
    /\ pc' = [pc EXCEPT ![i] = "searched"]
    /\ UNCHANGED <<shared, engine, response_text, mode, code, execution_result, result,
                   reply, oracle_calls, code_response>>

\* os.getenv("SERPER_API_KEY") of line 172: Serper was queried exactly when it is set
HasSerperKey(i) == providers[i] # <<>> /\ providers[i][1].provider = "serper"

\* handle_search, lines 139-175
HandleSearch(i) ==
    /\ pc[i] = "searched"
    /\ UNCHANGED handlers
    /\ \E answer \in Answers :
        Handled(i, "handle_search", SearchEnvelope(answer, HasSerperKey(i), search_results[i]))

\* handle_act up to the gate: the oracle's reply, the extraction (lines 142-156)
\* and the pattern loop of safe_execute_python (lines 62-79)
ActGenerate(i, contents) ==
    /\ pc[i] = "dispatch"
    /\ Handler(mode[i]) = "handle_act"
    /\ handlers' = [handlers EXCEPT ![i] = Append(@, "handle_act")]
    /\ oracle_calls' = [oracle_calls EXCEPT ![i] = Append(@, OracleCall("handle_act", FALSE))]
    /\ \E content \in contents :
        LET extracted == ExtractCode(strip(content))
            blocked == FirstMatch(extracted, 1)
        IN  /\ code_response' = [code_response EXCEPT ![i] = strip(content)]
            /\ code' = [code EXCEPT ![i] = extracted]
            /\ IF blocked > 0
               THEN /\ execution_result' =
                            [execution_result EXCEPT ![i] = Unsuccessful(BlockedError(blocked))]
                    /\ pc' = [pc EXCEPT ![i] = "act_result"]
               ELSE /\ pc' = [pc EXCEPT ![i] = "act_exec"]
                    /\ UNCHANGED execution_result
    /\ UNCHANGED <<shared, engine, response_text, mode, result, reply, searching>>

\* lines 82-91: the environment is built and exec is called; it compiles the code
\* first, and a syntax error is caught by line 112
ExecBegin(i) ==
    /\ pc[i] = "act_exec"
    /\ exec_calls' = [exec_calls EXCEPT ![i] = @ + 1]
    /\ math_object' = [math_object EXCEPT ![i] = SAFE_MATH]
    /\ safe_locals' = [safe_locals EXCEPT ![i] = <<>>]
    /\ ip' = [ip EXCEPT ![i] = 1]
    /\ IF Compiles(code[i])
       THEN /\ program' = [program EXCEPT ![i] = Program(code[i])]
            /\ pc' = [pc EXCEPT ![i] = "act_run"]
            /\ UNCHANGED execution_result
       ELSE /\ execution_result' =
                    [execution_result EXCEPT ![i] = Unsuccessful(<<"invalid syntax">>)]
            /\ pc' = [pc EXCEPT ![i] = "act_result"]
            /\ UNCHANGED program
    /\ UNCHANGED <<shared, response_text, mode, code, result, reply, names_read, called,
                   code_response, searching>>

\* What the next statement of request i does in the current state
Outcome(i) ==
    Execute(program[i][ip[i]],
            [locals |-> safe_locals[i], builtins |-> SAFE_BUILTINS,
             mathns |-> math_object[i]])

Running(i) == pc[i] = "act_run" /\ ip[i] <= Len(program[i])

\* exec runs one statement to its end
ExecStatement(i) ==
    /\ Running(i)
    /\ Outcome(i).status = "ok"
    /\ safe_locals' = [safe_locals EXCEPT ![i] = Outcome(i).locals]
    /\ math_object' = [math_object EXCEPT ![i] = Outcome(i).mathns]
    /\ SAFE_BUILTINS' = Outcome(i).builtins
    /\ names_read' = [names_read EXCEPT ![i] = @ \cup Outcome(i).read]
    /\ ip' = [ip EXCEPT ![i] = @ + 1]
    /\ UNCHANGED <<SAFE_MATH, pc, response_text, mode, code, program, execution_result,
                   result, reply, exec_calls, called, code_response, searching>>

\* A statement raises an Exception: lines 112-116 catch it
ExecRaises(i) ==
    /\ Running(i)
    /\ Outcome(i).status = "Exception"
    /\ names_read' = [names_read EXCEPT ![i] = @ \cup Outcome(i).read]
    /\ execution_result' = [execution_result EXCEPT ![i] = Unsuccessful(Outcome(i).error)]
    /\ pc' = [pc EXCEPT ![i] = "act_result"]
    /\ UNCHANGED <<shared, response_text, mode, code, program, ip, safe_locals,
                   math_object, result, reply, exec_calls, called, code_response,
                   searching>>

\* A statement raises an exception that is no Exception: neither line 112 nor
\* infer's except clause (api.py line 98) catches it
ExecEscapes(i) ==
    /\ Running(i)
    /\ Outcome(i).status = "BaseException"
    /\ reply' = [reply EXCEPT ![i] = Unhandled]
    /\ pc' = [pc EXCEPT ![i] = "done"]
    /\ UNCHANGED <<shared, engine, response_text, mode, code, execution_result, result,
                   called, code_response, searching>>

\* exec returns: lines 93-110
ExecReturn(i) ==
    /\ pc[i] = "act_run"
    /\ ip[i] > Len(program[i])
    /\ execution_result' = [execution_result EXCEPT ![i] = Succeeded(safe_locals[i])]
    /\ pc' = [pc EXCEPT ![i] = "act_result"]
    /\ UNCHANGED <<shared, engine, response_text, mode, code, result, reply, called,
                   code_response, searching>>

\* handle_act returns its envelope: lines 161-187
ActReturn(i) ==
    /\ pc[i] = "act_result"
    /\ result' = [result EXCEPT ![i] = ActEnvelope(code[i], execution_result[i])]
    /\ pc' = [pc EXCEPT ![i] = "handled"]
    /\ UNCHANGED <<shared, engine, response_text, mode, code, execution_result, reply,
                   called, code_response, searching>>

\* infer returns: lines 87-96
InferReturn(i) ==
    /\ pc[i] = "handled"
    /\ reply' = [reply EXCEPT ![i] = InferResponse(result[i])]
    /\ pc' = [pc EXCEPT ![i] = "done"]
    /\ UNCHANGED <<shared, engine, response_text, mode, code, execution_result, result,
                   called, code_response, searching>>

\* infer's if-chain falls through to line 85: the ValueError is caught by line 98
DispatchUnknown(i) ==
    /\ pc[i] = "dispatch"
    /\ Handler(mode[i]) = "ValueError"
    /\ reply' = [reply EXCEPT ![i] =
                    HTTPException(<<"Got an unknown mode somehow: ">> \o mode[i])]
    /\ pc' = [pc EXCEPT ![i] = "done"]
    /\ UNCHANGED <<shared, engine, response_text, mode, code, execution_result, result,
                   called, code_response, searching>>

\* infer with route_query replaced by a stand-in that returns any text (line 73
\* takes whatever the name route_query is bound to returns)
RouteStub(i) ==
    /\ pc[i] = "start"
    /\ \E m \in StubModes : mode' = [mode EXCEPT ![i] = m]
    /\ pc' = [pc EXCEPT ![i] = "dispatch"]
    /\ UNCHANGED <<shared, engine, response_text, code, execution_result, result, reply,
                   called, code_response, searching>>

\* The next request: nothing of the last one is kept but the module-level dicts
NewRequest(i) ==
    /\ pc[i] = "done"
    /\ pc' = [pc EXCEPT ![i] = "start"]
    /\ response_text' = [response_text EXCEPT ![i] = <<>>]
    /\ mode' = [mode EXCEPT ![i] = <<>>]
    /\ code' = [code EXCEPT ![i] = <<>>]
    /\ program' = [program EXCEPT ![i] = <<>>]
    /\ ip' = [ip EXCEPT ![i] = 1]
    /\ safe_locals' = [safe_locals EXCEPT ![i] = <<>>]
    /\ math_object' = [math_object EXCEPT ![i] = <<>>]
    /\ execution_result' = [execution_result EXCEPT ![i] = Unset]
    /\ result' = [result EXCEPT ![i] = Unset]
    /\ reply' = [reply EXCEPT ![i] = Unset]
    /\ names_read' = [names_read EXCEPT ![i] = {}]
    /\ exec_calls' = [exec_calls EXCEPT ![i] = 0]
    /\ oracle_calls' = [oracle_calls EXCEPT ![i] = <<>>]
    /\ handlers' = [handlers EXCEPT ![i] = <<>>]
    /\ code_response' = [code_response EXCEPT ![i] = <<>>]
    /\ providers' = [providers EXCEPT ![i] = <<>>]
    /\ search_results' = [search_results EXCEPT ![i] = <<>>]
    /\ UNCHANGED shared

\* ------------------------------------------------------------------------
\* The specifications
\* ------------------------------------------------------------------------

\* Two requests served side by side by the server's worker threads
Init == InitFor({"request 1", "request 2"})

Next ==
    \/ \E i \in Requests : RouteQuery(i, SharedRouterReplies)
    \/ \E i \in Requests : RouteReturn(i)
    \/ \E i \in Requests : RouteOracleFails(i)
    \/ \E i \in Requests : HandlerOracleFails(i)
    \/ \E i \in Requests : HandleRespond(i)
    \/ \E i \in Requests : HandlePlan(i)
    \/ \E i \in Requests : WebSearch(i)
    \/ \E i \in Requests : HandleSearch(i)
    \/ \E i \in Requests : ActGenerate(i, SharedCodeReplies)
    \/ \E i \in Requests : ExecBegin(i)
    \/ \E i \in Requests : ExecStatement(i)
    \/ \E i \in Requests : ExecRaises(i)
    \/ \E i \in Requests : ExecEscapes(i)
    \/ \E i \in Requests : ExecReturn(i)
    \/ \E i \in Requests : ActReturn(i)
    \/ \E i \in Requests : InferReturn(i)
    \/ \E i \in Requests : NewRequest(i)

Spec == Init /\ [][Next]_vars

\* One request at a time, over all the replies and scripts of the bounds
InitSequential == InitFor({"request 1"})

NextSequential ==
    \/ \E i \in Requests : RouteQuery(i, RouterReplies)
    \/ \E i \in Requests : RouteReturn(i)
    \/ \E i \in Requests : RouteOracleFails(i)
    \/ \E i \in Requests : HandlerOracleFails(i)
    \/ \E i \in Requests : HandleRespond(i)
    \/ \E i \in Requests : HandlePlan(i)
    \/ \E i \in Requests : WebSearch(i)
    \/ \E i \in Requests : HandleSearch(i)
    \/ \E i \in Requests : ActGenerate(i, CodeReplies)
    \/ \E i \in Requests : ExecBegin(i)
    \/ \E i \in Requests : ExecStatement(i)
    \/ \E i \in Requests : ExecRaises(i)
    \/ \E i \in Requests : ExecEscapes(i)
    \/ \E i \in Requests : ExecReturn(i)
    \/ \E i \in Requests : ActReturn(i)
    \/ \E i \in Requests : InferReturn(i)
    \/ \E i \in Requests : NewRequest(i)

SpecSequential == InitSequential /\ [][NextSequential]_vars

\* The dispatcher whatever it is handed: one request whose mode comes from
\* route_query or from a stand-in for it
InitDispatch == InitFor({"request 1"})

NextDispatch ==
    \/ \E i \in Requests : RouteQuery(i, SharedRouterReplies)
    \/ \E i \in Requests : RouteStub(i)
    \/ \E i \in Requests : RouteReturn(i)
    \/ \E i \in Requests : RouteOracleFails(i)
    \/ \E i \in Requests : DispatchUnknown(i)
    \/ \E i \in Requests : HandlerOracleFails(i)
    \/ \E i \in Requests : HandleRespond(i)
    \/ \E i \in Requests : HandlePlan(i)
    \/ \E i \in Requests : WebSearch(i)
    \/ \E i \in Requests : HandleSearch(i)
    \/ \E i \in Requests : ActGenerate(i, SharedCodeReplies)
    \/ \E i \in Requests : ExecBegin(i)
    \/ \E i \in Requests : ExecStatement(i)
    \/ \E i \in Requests : ExecRaises(i)
    \/ \E i \in Requests : ExecEscapes(i)
    \/ \E i \in Requests : ExecReturn(i)
    \/ \E i \in Requests : ActReturn(i)
    \/ \E i \in Requests : InferReturn(i)
    \/ \E i \in Requests : NewRequest(i)

SpecDispatch == InitDispatch /\ [][NextDispatch]_vars

\* ------------------------------------------------------------------------
\* The claims
\* ------------------------------------------------------------------------

\* C1: whatever text the oracle replied to the classifier (empty, lower case,
\* punctuated, inside prose, without any label), route_query returns one of the
\* four labels RESPOND, PLAN, SEARCH, ACT.
C1_ModeIsOneOfFourLabels ==
    \A i \in Requests :
        pc[i] \in {"routed", "dispatch"} =>
            mode[i] \in {RESPOND, PLAN, SEARCH, ACT}

\* C1 happens: route_query has returned for a non-empty reply that holds no label.
C1_Witness ==
    \E i \in Requests :
        /\ pc[i] = "routed"
        /\ response_text[i] # <<>>
        /\ \A m \in {RESPOND, PLAN, SEARCH, ACT} : ~Contains(upper(response_text[i]), m)

\* The labels, in the order the claim fixes, numbered
LabelOrder == [k \in 1..4 |-> CASE k = 1 -> RESPOND [] k = 2 -> PLAN
                                [] k = 3 -> SEARCH [] k = 4 -> ACT]

\* The reference parse of C2
ReferenceMode(text) ==
    LET normalized == upper(strip(text))
        found == {k \in 1..4 : \E at \in 1..Len(normalized) :
                                    StartsAt(normalized, at, LabelOrder[k])}
    IN  IF \E k \in 1..4 : normalized = LabelOrder[k] THEN normalized
        ELSE IF found # {} THEN LabelOrder[CHOOSE k \in found : \A o \in found : k <= o]
        ELSE RESPOND

\* C2: the label route_query returns is the reference parse of the reply: the
\* trimmed, upper-cased reply when that is a label, else the first label in the
\* order RESPOND, PLAN, SEARCH, ACT that occurs in it, else RESPOND.
C2_ParseEqualsReference ==
    \A i \in Requests :
        pc[i] = "routed" => mode[i] = ReferenceMode(response_text[i])

\* C2 happens: the reply holds ACT before PLAN, and PLAN is returned.
C2_Witness ==
    \E i \in Requests :
        /\ pc[i] = "routed"
        /\ Find(upper(response_text[i]), ACT, 1) > 0
        /\ Find(upper(response_text[i]), PLAN, 1) > Find(upper(response_text[i]), ACT, 1)
        /\ mode[i] = PLAN

\* The texts the fixed denylist names, folded to lower case
DenylistedTexts ==
    {<<"_","_","i","m","p","o","r","t","_","_">>, <<"e","x","e","c","(">>,
     <<"e","v","a","l","(">>, <<"c","o","m","p","i","l","e","(">>, <<"o","p","e","n","(">>,
     <<"f","i","l","e","(">>, <<"i","n","p","u","t","(">>,
     <<"r","a","w","_","i","n","p","u","t","(">>}

\* An import keyword, white space, and then something that does not begin with math
HasForeignImport(low) ==
    \E k \in 1..Len(low), m \in 1..Len(low) :
        /\ k + 5 + m <= Len(low)
        /\ SubSeq(low, k, k + 5) = <<"i","m","p","o","r","t">>
        /\ \A j \in (k + 6)..(k + 5 + m) : low[j] \in {" ", "\n", "\t"}
        /\ (k + 9 + m > Len(low)
                \/ SubSeq(low, k + 6 + m, k + 9 + m) # <<"m","a","t","h">>)

\* The text holds a denylisted pattern somewhere, in whatever case
Denylisted(text) ==
    \/ \E lit \in DenylistedTexts :
        \E k \in 1..Len(text) :
            /\ k + Len(lit) - 1 <= Len(text)
            /\ lower(SubSeq(text, k, k + Len(lit) - 1)) = lit
    \/ HasForeignImport(lower(text))

\* C3: a script that holds a denylisted pattern anywhere is never executed: the
\* request does not reach exec, the engine's outcome is the rejection, and the
\* envelope of handle_act is a failure that carries the reason and the code.
C3_DenylistedNeverExecuted ==
    \A i \in Requests :
        Denylisted(code[i]) =>
            /\ exec_calls[i] = 0
            /\ pc[i] \notin {"act_exec", "act_run"}
            /\ pc[i] = "act_result" =>
                /\ ~execution_result[i].success
                /\ \E p \in 1..9 : execution_result[i].error = BlockedError(p)
            /\ (pc[i] \in {"handled", "done"} /\ result[i] # Unset) =>
                /\ result[i].metadata.execution_success = FALSE
                /\ result[i].metadata.error = execution_result[i].error
                /\ result[i].answer = <<"Execution failed: ">> \o execution_result[i].error
                /\ result[i].code = code[i]
                /\ result[i].result = "None"

\* C3 happens: handle_act has returned for a script that holds a denylisted call
\* inside a comment.
C3_Witness ==
    \E i \in Requests :
        /\ pc[i] = "handled"
        /\ code[i] = <<"#"," ","o","p","e","n","(">>
        /\ Denylisted(code[i])

\* The mapping a dict stands for, whatever its insertion order
AsMapping(d) == {d[k] : k \in 1..Len(d)}

\* C4: after any sequence of ACT requests the catalog (SAFE_BUILTINS and
\* SAFE_MATH) maps the same names to the same implementations as at process start.
C4_CatalogUnchanged ==
    /\ AsMapping(SAFE_BUILTINS) = AsMapping(CoreCatalog)
    /\ AsMapping(SAFE_MATH) = AsMapping(MathCatalog)

\* The engine has returned an outcome for a script that passed the gate.
Executed(i) ==
    /\ pc[i] \in {"act_result", "handled", "done"}
    /\ exec_calls[i] = 1
    /\ execution_result[i] # Unset

\* C5: the outcome of a gate-passed script is the same in every request that runs
\* it, whatever other requests ran before it or run beside it.
C5_SameScriptSameResult ==
    \A i, j \in Requests :
        (Executed(i) /\ Executed(j) /\ code[i] = code[j]) =>
            execution_result[i] = execution_result[j]

\* C6: every name a script resolves that it did not bind itself is a core catalog
\* symbol or the pre-bound math namespace.
C6_OnlyCatalogNamesResolve ==
    \A i \in Requests :
        names_read[i] \subseteq DictKeys(CoreCatalog) \cup {<<"m","a","t","h">>}

\* The statements that bind their target
Binding == {"assign_const", "assign_name", "call", "call_attr"}

\* The statements of prog up to the k-th that bind or delete the name
Touches(prog, k, name) ==
    {j \in 1..k : prog[j].target = name /\ prog[j].op \in Binding \cup {"del_name"}}

Max(S) == CHOOSE x \in S : \A y \in S : y <= x

\* Whether the name is bound once the first k statements have run
BoundAfter(prog, k, name) ==
    /\ Touches(prog, k, name) # {}
    /\ prog[Max(Touches(prog, k, name))].op \in Binding

\* The names bound when the script ends
BoundNames(prog) ==
    {name \in {prog[k].target : k \in 1..Len(prog)} : BoundAfter(prog, Len(prog), name)}

\* The statement that defined the name: the one from which on it stayed bound
DefinedAt(prog, name) ==
    CHOOSE j \in 1..Len(prog) :
        /\ \A m \in j..Len(prog) : BoundAfter(prog, m, name)
        /\ j = 1 \/ ~BoundAfter(prog, j - 1, name)

\* The name defined last, in definition order
LastDefined(prog) ==
    CHOOSE name \in BoundNames(prog) :
        \A other \in BoundNames(prog) : DefinedAt(prog, other) <= DefinedAt(prog, name)

\* C7: for a script that ran without fault the result value is the value of
\* result when the script defined it, else of answer when defined, else of the
\* binding defined last in definition order when there is any, else None.
C7_ResultPriority ==
    \A i \in Requests :
        (pc[i] = "act_result" /\ execution_result[i].success) =>
            /\ DictKeys(safe_locals[i]) = BoundNames(program[i])
            /\ execution_result[i].result =
                IF <<"r","e","s","u","l","t">> \in BoundNames(program[i])
                THEN DictGet(safe_locals[i], <<"r","e","s","u","l","t">>)
                ELSE IF <<"a","n","s","w","e","r">> \in BoundNames(program[i])
                THEN DictGet(safe_locals[i], <<"a","n","s","w","e","r">>)
                ELSE IF BoundNames(program[i]) # {}
                THEN DictGet(safe_locals[i], LastDefined(program[i]))
                ELSE "None"

\* C7 happens: the script x = 1, y = 2 has run and its result is 2.
C7_Witness ==
    \E i \in Requests :
        /\ pc[i] = "act_result"
        /\ code[i] = <<"x"," ","="," ","1","\n","y"," ","="," ","2">>
        /\ execution_result[i].success
        /\ execution_result[i].result = "2"

\* C8: no fault raised by a running script leaves safe_execute_python or
\* handle_act: every request that reached exec ends with an envelope.
C8_FaultsNeverEscape ==
    \A i \in Requests :
        (pc[i] = "done" /\ exec_calls[i] = 1) =>
            /\ reply[i].status = "200"
            /\ result[i] # Unset

\* C9: whatever the outcome, the envelope of handle_act has mode ACT and the
\* extracted script as code; execution_success is true exactly when the outcome is
\* Ok; on Rejected or Failed the result is None and metadata.error and the answer
\* carry the error.
C9_ActEnvelope ==
    \A i \in Requests :
        (pc[i] \in {"handled", "done"} /\ mode[i] = ACT /\ result[i] # Unset) =>
            /\ result[i].mode = ACT
            /\ result[i].code = code[i]
            /\ result[i].metadata.execution_success = execution_result[i].success
            /\ execution_result[i].success =>
                /\ result[i].result = execution_result[i].result
            /\ ~execution_result[i].success =>
                /\ result[i].result = "None"
                /\ result[i].metadata.error = execution_result[i].error
                /\ result[i].answer = <<"Execution failed: ">> \o execution_result[i].error

\* C9 happens: handle_act has returned for the script z = 1/0, which failed.
C9_Witness ==
    \E i \in Requests :
        /\ pc[i] = "handled"
        /\ code[i] = <<"z"," ","="," ","1","/","0">>
        /\ exec_calls[i] = 1
        /\ execution_result[i] = [success |-> FALSE, error |-> <<"division by zero">>]

\* C10: the response of /infer carries mode, answer and metadata and the fields
\* of the handler's mode: code and result for ACT, sources for SEARCH, plan for
\* PLAN.
C10_ResponseCarriesModeFields ==
    \A i \in Requests :
        (pc[i] = "done" /\ reply[i].status = "200") =>
            /\ {"mode", "answer", "metadata"} \subseteq DOMAIN reply[i].body
            /\ mode[i] = ACT => {"code", "result"} \subseteq DOMAIN reply[i].body
            /\ mode[i] = SEARCH => "sources" \in DOMAIN reply[i].body
            /\ mode[i] = PLAN => "plan" \in DOMAIN reply[i].body

\* The request-level failure infer answers when an oracle call failed
OracleFailure == [status |-> "500", detail |-> "oracle failure"]

\* C11: a request ends with an error status only when one of its oracle calls
\* failed; an unparseable classifier reply, a gate rejection and a runtime fault
\* in the script all end with a 200 response that carries mode, answer and
\* metadata.
C11_OnlyOracleFailureFailsRequest ==
    \A i \in Requests :
        (pc[i] = "done" /\ \A k \in 1..Len(oracle_calls[i]) : ~oracle_calls[i][k].failed) =>
            /\ reply[i].status = "200"
            /\ {"mode", "answer", "metadata"} \subseteq DOMAIN reply[i].body
            /\ reply[i].body.mode \in AgentMode

\* The handler each label names
HandlerOfLabel ==
    [m \in AgentMode |-> CASE m = RESPOND -> "handle_respond" [] m = PLAN -> "handle_plan"
                           [] m = SEARCH -> "handle_search" [] m = ACT -> "handle_act"]

\* The calls of llm_client.generate that route_query made
ClassifierCalls(i) == SelectSeq(oracle_calls[i], LAMBDA c : c.caller = "route_query")

\* The classifier has returned a Mode to infer and infer has acted on it.
Dispatched(i) ==
    /\ pc[i] \notin {"start", "routed", "dispatch"}
    /\ ~oracle_calls[i][1].failed

\* C12: the classifier is consulted once per request; once it has returned a
\* Mode, exactly one handler is invoked, the one the Mode names; the envelope
\* and the response carry that Mode; exec is reached only when the Mode is ACT.
C12_OneHandlerMatchingMode ==
    \A i \in Requests :
        /\ Len(ClassifierCalls(i)) = IF pc[i] = "start" THEN 0 ELSE 1
        /\ Len(handlers[i]) <= 1
        /\ Dispatched(i) => handlers[i] = <<HandlerOfLabel[mode[i]]>>
        /\ result[i] # Unset => result[i].mode = mode[i]
        /\ (pc[i] = "done" /\ reply[i].status = "200") => reply[i].body.mode = mode[i]
        /\ (exec_calls[i] > 0 \/ pc[i] \in {"act_exec", "act_run", "act_result"}) =>
                mode[i] = ACT

\* C12 happens: a request classified SEARCH has been answered by handle_search
\* alone, without exec.
C12_Witness ==
    \E i \in Requests :
        /\ pc[i] = "done"
        /\ mode[i] = SEARCH
        /\ Len(ClassifierCalls(i)) = 1
        /\ handlers[i] = <<"handle_search">>
        /\ reply[i].status = "200"
        /\ reply[i].body.mode = SEARCH
        /\ exec_calls[i] = 0

\* The mode of the request came from route_query (a stand-in asks no oracle).
FromRouteQuery(i) == oracle_calls[i] # <<>> /\ ~oracle_calls[i][1].failed

\* C13: a Mode outside the four labels makes infer fail the request with an
\* error that names the Mode, without invoking a handler, asking the oracle or
\* reaching exec; a Mode that route_query produced never takes that branch.
C13_UnknownModeFailsLoudly ==
    \A i \in Requests :
        /\ (pc[i] = "done" /\ oracle_calls[i] = <<>> /\ mode[i] \notin AgentMode) =>
            /\ reply[i] = [status |-> "500",
                           detail |-> <<"Got an unknown mode somehow: ">> \o mode[i]]
            /\ handlers[i] = <<>>
            /\ result[i] = Unset
            /\ exec_calls[i] = 0
        /\ FromRouteQuery(i) =>
            /\ mode[i] \in AgentMode
            /\ pc[i] = "done" => handlers[i] = <<HandlerOfLabel[mode[i]]>>

\* C13 happens: the dispatcher was handed the lower-case text act and the
\* request has ended with the error.
C13_Witness ==
    \E i \in Requests :
        /\ pc[i] = "done"
        /\ oracle_calls[i] = <<>>
        /\ mode[i] = <<"a","c","t">>
        /\ reply[i].status = "500"
        /\ handlers[i] = <<>>

\* The script of request i ran without fault and result is the only name it bound.
OnlyResultBound(i) ==
    /\ pc[i] = "act_result"
    /\ execution_result[i].success
    /\ BoundNames(program[i]) = {<<"r","e","s","u","l","t">>}

\* C14 as stated: for a script whose only top-level binding is result, the
\* outcome is Ok with that value and an empty bindings map.
C14_OnlyResultGivesEmptyBindings ==
    \A i \in Requests :
        OnlyResultBound(i) =>
            execution_result[i] = [success |-> TRUE, result |-> "42", variables |-> <<>>]

\* C14 amended: for a script whose only top-level binding is result, the outcome
\* is Ok with that value and a bindings map that holds exactly the binding of
\* result: Ok(42, {result: 42}).
C14_OnlyResultGivesResultBinding ==
    \A i \in Requests :
        OnlyResultBound(i) =>
            execution_result[i] =
                [success |-> TRUE, result |-> "42",
                 variables |-> << <<(<<"r","e","s","u","l","t">>), "42">> >>]

\* C14 happens: the script result = 42 has run.
C14_Witness ==
    \E i \in Requests :
        /\ OnlyResultBound(i)
        /\ code[i] = <<"r","e","s","u","l","t"," ","="," ","4","2">>
        /\ execution_result[i].result = "42"

\* C15: on Ok the bindings map holds exactly the names the script defined that
\* do not begin with an underscore, each with the value it has when the script
\* ends; no name that begins with an underscore is in it.
C15_BindingsArePublicNames ==
    \A i \in Requests :
        (pc[i] = "act_result" /\ execution_result[i].success) =>
            LET variables == execution_result[i].variables
            IN  /\ DictKeys(variables) = {name \in BoundNames(program[i]) : name[1] # "_"}
                /\ \A name \in DictKeys(variables) :
                        DictGet(variables, name) = DictGet(safe_locals[i], name)
                /\ \A k \in 1..Len(variables) : variables[k][1][1] # "_"
                /\ \A k, m \in 1..Len(variables) : variables[k][1] = variables[m][1] => k = m

\* C15 happens: the script x = 1, _t = 5 has run; x is in the bindings map and
\* _t is not.
C15_Witness ==
    \E i \in Requests :
        /\ pc[i] = "act_result"
        /\ code[i] = <<"x"," ","="," ","1","\n","_","t"," ","="," ","5">>
        /\ execution_result[i].success
        /\ execution_result[i].variables = << <<(<<"x">>), "1">> >>
        /\ DictHas(safe_locals[i], <<"_","t">>)

\* The lines of a script that are import statements, and the module each names
ImportLines(text) ==
    {line \in {CodeLines(text)[k] : k \in 1..Len(CodeLines(text))} :
        IsStatement(line) /\ StatementOf(line).op = "import"}

\* The gate has let the script of request i through or has rejected it.
GatePassed(i) == pc[i] \in {"act_exec", "act_run"} \/ exec_calls[i] = 1

GateRejected(i) == pc[i] = "act_result" /\ exec_calls[i] = 0

\* C16: the gate rejects every script that holds an import statement of a module
\* other than math, and lets through every script that is nothing but import
\* statements of math.
C16_GateRejectsExactlyForeignImports ==
    \A i \in Requests :
        /\ (\E line \in ImportLines(code[i]) : StatementOf(line).name # <<"m","a","t","h">>)
                => ~GatePassed(i)
        /\ (/\ ImportLines(code[i]) # {}
            /\ \A k \in 1..Len(CodeLines(code[i])) : CodeLines(code[i])[k] \in ImportLines(code[i])
            /\ \A line \in ImportLines(code[i]) : StatementOf(line).name = <<"m","a","t","h">>)
                => ~GateRejected(i)

\* handle_act got a script from the oracle for request i and the request is
\* through with the engine.
EngineDone(i) ==
    /\ pc[i] \in {"act_result", "handled", "done"}
    /\ handlers[i] = <<"handle_act">>
    /\ ~oracle_calls[i][Len(oracle_calls[i])].failed

\* The error of a gate rejection
IsBlocked(error) == \E p \in 1..Len(PatternSource) : error = BlockedError(p)

\* C17: every engine invocation ends in exactly one outcome: Rejected exactly
\* when the script holds a denylisted pattern, Failed exactly when the gate
\* passed and the execution raised a fault, Ok exactly when the gate passed and
\* the execution completed.
C17_ExactlyOneOutcome ==
    \A i \in Requests :
        EngineDone(i) =>
            /\ execution_result[i] # Unset
            /\ Denylisted(code[i]) <=>
                    (~execution_result[i].success /\ IsBlocked(execution_result[i].error))
            /\ execution_result[i].success <=>
                    (/\ ~Denylisted(code[i])
                     /\ Compiles(code[i])
                     /\ ip[i] = Len(program[i]) + 1)
            /\ (~execution_result[i].success /\ ~IsBlocked(execution_result[i].error)) <=>
                    (/\ ~Denylisted(code[i])
                     /\ exec_calls[i] = 1
                     /\ ~Compiles(code[i]) \/ ip[i] <= Len(program[i]))

\* The positions where a closing fence stands after the opening fence at a
ClosingAfter(text, a) ==
    {b \in (a + 10)..Len(text) :
        b + 2 <= Len(text) /\ <<text[b], text[b + 1], text[b + 2]>> = <<bq, bq, bq>>}

\* The positions of the opening fences that are closed
ClosedOpenings(text) ==
    {a \in 1..Len(text) :
        /\ a + 9 <= Len(text)
        /\ [k \in 1..10 |-> text[a + k - 1]] = <<bq,bq,bq,"p","y","t","h","o","n","\n">>
        /\ ClosingAfter(text, a) # {}}

Least(S) == CHOOSE x \in S : \A y \in S : x <= y

\* The interior of the first fenced block of a text that has one
Interior(text) ==
    LET a == Least(ClosedOpenings(text))
        b == Least(ClosingAfter(text, a))
    IN  [k \in 1..(b - a - 10) |-> text[a + 9 + k]]

\* handle_act holds the oracle's reply for request i.
Extracted(i) == handlers[i] = <<"handle_act">> /\ code_response[i] # <<>>

\* The gate and the engine got the extracted script, and the envelope carries it.
ScriptIsUsed(i) ==
    /\ GateRejected(i) => Denylisted(code[i])
    /\ GatePassed(i) => ~Denylisted(code[i])
    /\ pc[i] = "act_run" => program[i] = Program(code[i])
    /\ result[i] # Unset => result[i].code = code[i]

\* C18 as stated: the script is the interior of the fenced block when the reply
\* has one, else the entire reply verbatim; the gate, the engine and the
\* envelope's code field get this script.
C18_ScriptIsInteriorVerbatim ==
    \A i \in Requests :
        Extracted(i) =>
            /\ code[i] = IF ClosedOpenings(code_response[i]) # {}
                         THEN Interior(code_response[i])
                         ELSE code_response[i]
            /\ ScriptIsUsed(i)

\* C18 amended: the script is the interior of the fenced block with the white
\* space at its two ends trimmed when the reply has one, else the entire reply as
\* the oracle client returned it; the gate, the engine and the envelope's code
\* field get this script.
C18_ScriptIsTrimmedInterior ==
    \A i \in Requests :
        Extracted(i) =>
            /\ code[i] = IF ClosedOpenings(code_response[i]) # {}
                         THEN strip(Interior(code_response[i]))
                         ELSE code_response[i]
            /\ ScriptIsUsed(i)

\* C18 happens: the reply was a line of prose and then the fenced script x = 1,
\* and handle_act has returned an envelope whose code is x = 1.
C18_Witness ==
    \E i \in Requests :
        /\ pc[i] = "handled"
        /\ Extracted(i)
        /\ code_response[i] = prose \o Fenced(<<"x"," ","="," ","1">>)
        /\ Interior(code_response[i]) = <<"x"," ","="," ","1","\n">>
        /\ result[i].code = <<"x"," ","="," ","1">>

\* The calls of llm_client.generate of request i that failed
FailedCalls(i) == {k \in 1..Len(oracle_calls[i]) : oracle_calls[i][k].failed}

\* C19: route_query asks the oracle once and never again; a failed oracle call,
\* the classifier's or a handler's, is the last call of its request: no handler
\* is entered after it, nothing is executed, no envelope is built, and the
\* request ends with the request-level failure.
C19_OracleFailureEndsRequest ==
    \A i \in Requests :
        /\ Len(ClassifierCalls(i)) <= 1
        /\ Len(oracle_calls[i]) <= 2
        /\ \A k \in FailedCalls(i) :
            /\ k = Len(oracle_calls[i])
            /\ pc[i] = "done"
            /\ reply[i] = OracleFailure
            /\ result[i] = Unset
            /\ exec_calls[i] = 0
            /\ code[i] = <<>>
            /\ handlers[i] = IF oracle_calls[i][k].caller = "route_query"
                             THEN <<>> ELSE <<oracle_calls[i][k].caller>>

\* C19 happens: the classifier's call succeeded, handle_search searched, its
\* oracle call failed and the request has ended with the failure.
C19_Witness ==
    \E i \in Requests :
        /\ pc[i] = "done"
        /\ oracle_calls[i] = <<OracleCall("route_query", FALSE), OracleCall("handle_search", TRUE)>>
        /\ search_results[i] # <<>>
        /\ reply[i] = OracleFailure
        /\ result[i] = Unset

\* The queries of request i's web_search that came back with results
Useful(i) ==
    {k \in 1..Len(providers[i]) :
        ~providers[i][k].outcome.failed /\ providers[i][k].outcome.results # <<>>}

\* The k-th provider queried, when there is one
ProviderAt(i, k) == IF k <= Len(providers[i]) THEN providers[i][k].provider ELSE "none"

\* C20: web_search asks Serper before DuckDuckGo and each at most once; it asks
\* DuckDuckGo exactly when Serper gave no results (no key, a failure or an empty
\* list); it returns the results of the first provider that gave any (of Serper
\* the first five), and the single placeholder Search Unavailable when none did;
\* no provider failure keeps web_search from returning.
C20_SearchFallbackChain ==
    \A i \in Requests :
        (handlers[i] = <<"handle_search">>) =>
            /\ pc[i] \in {"searched", "handled", "done"}
            /\ <<ProviderAt(i, 1), ProviderAt(i, 2)>> \in
                    {<<"serper", "none">>, <<"serper", "duckduckgo">>, <<"duckduckgo", "none">>}
            /\ Len(providers[i]) <= 2
            /\ (ProviderAt(i, 1) = "serper" /\ ProviderAt(i, 2) = "duckduckgo") <=>
                    (ProviderAt(i, 1) = "serper" /\ 1 \notin Useful(i))
            /\ Useful(i) # {} =>
                    /\ Useful(i) = {Len(providers[i])}
                    /\ search_results[i] =
                        LET got == providers[i][Len(providers[i])]
                        IN  IF got.provider = "serper" /\ Len(got.outcome.results) > 5
                            THEN SubSeq(got.outcome.results, 1, 5)
                            ELSE got.outcome.results
            /\ Useful(i) = {} =>
                    /\ ProviderAt(i, Len(providers[i])) = "duckduckgo"
                    /\ Len(search_results[i]) = 1
                    /\ search_results[i][1].title = "Search Unavailable"
                    /\ search_results[i][1].url = ""

\* C20 happens: Serper failed, DuckDuckGo was asked and gave results, and they
\* are what web_search returned.
C20_Witness ==
    \E i \in Requests :
        /\ pc[i] = "searched"
        /\ Len(providers[i]) = 2
        /\ providers[i][1].provider = "serper" /\ providers[i][1].outcome.failed
        /\ providers[i][2].provider = "duckduckgo" /\ providers[i][2].outcome.results # <<>>
        /\ search_results[i] = providers[i][2].outcome.results

\* The assignments of a script, by position
Assignments(prog) == {k \in 1..Len(prog) : prog[k].op \in Binding}

\* The name the last assignment of a script binds
LastAssigned(prog) == prog[Max(Assignments(prog))].target

\* C21: when a faultless script defines neither result nor answer, the result
\* value is the value of the name its last executed assignment bound, also when
\* that name was first bound before other names were (x = 1, y = 2, x = 3
\* gives 3).
C21_ResultIsLastAssignment ==
    \A i \in Requests :
        (/\ pc[i] = "act_result"
         /\ execution_result[i].success
         /\ <<"r","e","s","u","l","t">> \notin BoundNames(program[i])
         /\ <<"a","n","s","w","e","r">> \notin BoundNames(program[i])
         /\ Assignments(program[i]) # {}
         /\ LastAssigned(program[i]) \in BoundNames(program[i])) =>
            execution_result[i].result = DictGet(safe_locals[i], LastAssigned(program[i]))

import_math == <<"i","m","p","o","r","t"," ","m","a","t","h">>

\* The script of request i has the statement import math as one of its lines and
\* no denylisted text.
ImportsMath(i) ==
    /\ Extracted(i)
    /\ \E k \in 1..Len(CodeLines(code[i])) : CodeLines(code[i])[k] = import_math
    /\ ~Denylisted(code[i])

\* exec stopped request i's script at its statement import math.
StoppedAtImport(i) ==
    /\ pc[i] = "act_result"
    /\ exec_calls[i] = 1
    /\ Compiles(code[i])
    /\ ip[i] <= Len(program[i])
    /\ program[i][ip[i]].text = import_math

\* C22: a script with the statement import math is not rejected by the gate, yet
\* never completes: the outcome is never Ok, and the import statement, once
\* executed, ends the run as Failed because the catalog has no __import__; the
\* math symbols are reached through the pre-bound name math without any import.
C22_ImportMathPassesGateAndFails ==
    \A i \in Requests :
        /\ ImportsMath(i) =>
            /\ ~GateRejected(i)
            /\ pc[i] \in {"act_result", "handled", "done"} =>
                    (execution_result[i] = Unset \/ ~execution_result[i].success)
            /\ ~(pc[i] = "act_run" /\ ip[i] > Len(program[i]))
        /\ StoppedAtImport(i) =>
            execution_result[i] = [success |-> FALSE, error |-> <<"__import__ not found">>]
        /\ (pc[i] = "act_result"
                /\ code[i] = <<"z"," ","="," ","m","a","t","h",".","s","q","r","t","(","4",")">>) =>
            /\ execution_result[i].success
            /\ names_read[i] = {<<"m","a","t","h">>}

\* C22 happens: the script import math passed the gate, exec ran it and the
\* outcome is the failure of the import statement.
C22_Witness ==
    \E i \in Requests :
        /\ ImportsMath(i)
        /\ code[i] = import_math
        /\ StoppedAtImport(i)
        /\ ~execution_result[i].success

====
